---------------------------- MODULE Spec2Model ----------------------------
(***************************************************************************)
(* A model of the two fragments of the repository:                         *)
(*                                                                         *)
(*   - wandb/integration/sacred/__init__.py: WandbObserver, the adapter    *)
(*     that turns the callbacks of a sacred experiment into calls on the   *)
(*     wandb client;                                                       *)
(*   - tests/functional_tests/t0_main/jobs/job_container_creation.py: the  *)
(*     job script.                                                         *)
(*                                                                         *)
(* The wandb client, warnings.warn and sacred's get_digest are outside the *)
(* repository.  A call on the client is modelled as the record of the call *)
(* (operation and arguments) appended to a log and returns normally;       *)
(* get_digest either returns a digest or raises, since the adapter's own   *)
(* state depends on which of the two happens.                              *)
(*                                                                         *)
(* Python values are records [type, num, text, items]:                     *)
(*   type   the name of the value's class;                                 *)
(*   num    an int's value, a float's value counted in tenths;             *)
(*   text   a str's characters, the key of a dict entry;                   *)
(*   items  the elements of a tuple, list or ndarray, the entries of a     *)
(*          dict (in insertion order), the value of a dict entry.          *)
(***************************************************************************)
EXTENDS Integers, Sequences, FiniteSets, TLC

VARIABLES
    config,        \* self.run.config: key -> value
    resources,     \* self.resources: filename -> digest
    digestCalls,   \* filename -> number of get_digest(filename) invocations
    digestRaised,  \* filename -> number of those invocations that raised
    hook,          \* the callback delivered last ("__init__" after construction)
    args,          \* its argument, a Python value
    calls,         \* the client calls it issued, in order
    raised,        \* the exception it propagated, "" when it returned
    pc,            \* job script: the line about to run
    environ,       \* job script: os.environ
    settings,      \* job script: the wandb.Settings object
    runConfig,     \* job script: run.config
    loopI,         \* job script: the loop variable i (0 before the loop)
    trace          \* job script: the client calls made, in order

observerVars == <<config, resources, digestCalls, digestRaised, hook, args, calls, raised>>
jobVars == <<pc, environ, settings, runConfig, loopI, trace>>
vars == <<config, resources, digestCalls, digestRaised, hook, args, calls, raised,
          pc, environ, settings, runConfig, loopI, trace>>

----------------------------------------------------------------------------
(* Bounds of the model.                                                    *)

\* the longest result tuple handed to completed_event
MaxResultLen == 2
\* the longest steps / values sequence of one metric
MaxSeriesLen == 2
\* get_digest invocations per filename
MaxDigestCalls == 2

----------------------------------------------------------------------------
(* Python values.                                                          *)

Val(t, n, s, it) == [type |-> t, num |-> n, text |-> s, items |-> it]

PyNone == Val("NoneType", 0, "", <<>>)

PyInt(n) == Val("int", n, "", <<>>)

PyBool(b) == Val("bool", IF b THEN 1 ELSE 0, "", <<>>)

\* a float of tenths/10: PyFloat(5) is 0.5, PyFloat(10) is 1.0
PyFloat(tenths) == Val("float", tenths, "", <<>>)

PyStr(s) == Val("str", 0, s, <<>>)

PyTuple(it) == Val("tuple", 0, "", it)

PyList(it) == Val("list", 0, "", it)

\* one key/value pair of a dict
Entry(k, v) == Val("(entry)", 0, k, <<v>>)

PyDict(entries) == Val("dict", 0, "", entries)

NdArray(elems) == Val("numpy.ndarray", 0, "", elems)

\* wandb.Image(data)
Image(data) == Val("wandb.Image", 0, "", <<data>>)

\* float(r) for an int, a bool or a float
Float(r) == IF r.type = "float" THEN r ELSE PyFloat(10 * r.num)

\* d[key] for a dict d that holds key
DictGet(d, key) ==
    LET i == CHOOSE j \in 1..Len(d.items) : d.items[j].text = key
    IN  d.items[i].items[1]

\* the classes v is an instance of: its class and the bases of that class
Mro(t) == IF t = "bool" THEN {"bool", "int", "object"} ELSE {t, "object"}

\* an instance test that no value passes for the class object
NotObject(v, cls) ==
    IF cls = "object" THEN FALSE ELSE cls \in Mro(v.type)

\* isinstance(v, cls)
IsInstance(v, cls) == cls \in Mro(v.type)

\* bool(v): "True", "False", or the exception the truth test raises
RECURSIVE Truth(_)
Truth(v) ==
    CASE v.type = "NoneType" -> "False"
      [] v.type \in {"int", "float", "bool"} -> IF v.num = 0 THEN "False" ELSE "True"
      [] v.type = "str" -> IF v.text = "" THEN "False" ELSE "True"
      [] v.type \in {"tuple", "list", "dict"} -> IF v.items = <<>> THEN "False" ELSE "True"
      [] v.type = "numpy.ndarray" ->
            IF Len(v.items) > 1 THEN "ValueError"
            ELSE IF Len(v.items) = 0 THEN "False"
            ELSE Truth(v.items[1])
      [] OTHER -> "True"

----------------------------------------------------------------------------
(* Calls on the collaborators.  idx is the index of the loop iteration     *)
(* that issues the call (0 outside a loop).                                *)

Call(op, idx, a) == [op |-> op, idx |-> idx, args |-> a]

\* wandb.log(payload)
LogCall(idx, payload) == Call("wandb.log", idx, <<payload>>)

\* wandb.Artifact(name, type=type)
ArtifactCall(idx, name, type) == Call("wandb.Artifact", idx, <<PyStr(name), PyStr(type)>>)

\* artifact.add_file(path), artifact being the one named name
AddFileCall(idx, name, path) == Call("Artifact.add_file", idx, <<PyStr(name), path>>)

\* self.run.log_artifact(artifact)
LogArtifactCall(idx, name) == Call("run.log_artifact", idx, <<PyStr(name)>>)

\* str(type(r))
TypeRepr(r) == "<class '" \o r.type \o "'>"

\* warnings.warn(f"logging results does not support type '{type(r)}' results. ...")
WarnCall(idx, r) ==
    Call("warnings.warn", idx,
         <<PyStr("logging results does not support type '" \o TypeRepr(r)
                 \o "' results. Ignoring this result")>>)

----------------------------------------------------------------------------
(* WandbObserver.__update_config and started_event.                        *)

\* d[k] = v on a key/value store
SetItem(d, k, v) == [x \in (DOMAIN d) \cup {k} |-> IF x = k THEN v ELSE d[x]]

\* for k, v in config.items(): self.run.config[k] = v
RECURSIVE MergeItems(_, _)
MergeItems(cfg, entries) ==
    IF entries = <<>> THEN cfg
    ELSE MergeItems(SetItem(cfg, Head(entries).text, Head(entries).items[1]),
                    Tail(entries))

\* a merge that leaves the 'resources' key as it finds it
MergeOnly(cfg, c) == MergeItems(cfg, c.items)

\* the merge, then self.run.config["resources"] = []
UpdateConfig(cfg, c) == SetItem(MergeItems(cfg, c.items), "resources", PyList(<<>>))

StartedEvent(c) ==
    /\ config' = UpdateConfig(config, c)
    /\ hook' = "started_event"
    /\ args' = c
    /\ calls' = <<>>
    /\ raised' = ""
    /\ UNCHANGED <<resources, digestCalls, digestRaised>>
    /\ UNCHANGED jobVars

----------------------------------------------------------------------------
(* WandbObserver.completed_event.                                          *)

\* f"result_{i}"
ResultName(i) == "result_" \o ToString(i)

\* a dict branch that logs every value under result_<i>
RenamedDict(i, r) ==
    <<LogCall(i, PyDict([j \in 1..Len(r.items) |->
                            Entry(ResultName(i), r.items[j].items[1])]))>>

\* elif isinstance(r, dict): wandb.log(r)
DictResultCalls(i, r) == <<LogCall(i, r)>>

\* the body of the loop for element r at index i
ResultCalls(i, r) ==
    IF IsInstance(r, "float") \/ IsInstance(r, "int")
    THEN <<LogCall(i, PyDict(<<Entry(ResultName(i), Float(r))>>))>>
    ELSE IF IsInstance(r, "dict")
    THEN DictResultCalls(i, r)
    ELSE IF IsInstance(r, "object")
    THEN <<ArtifactCall(i, ResultName(i) \o ".pkl", "result"),
           AddFileCall(i, ResultName(i) \o ".pkl", r),
           LogArtifactCall(i, ResultName(i) \o ".pkl")>>
    ELSE IF IsInstance(r, "numpy.ndarray")
    THEN <<LogCall(i, PyDict(<<Entry(ResultName(i), Image(r))>>))>>
    ELSE <<WarnCall(i, r)>>

\* if not isinstance(result, tuple): result = (result,)
AsTuple(result) == IF IsInstance(result, "tuple") THEN result.items ELSE <<result>>

\* for i, r in enumerate(result): the calls of the first n iterations
RECURSIVE LoopCalls(_, _)
LoopCalls(elems, n) ==
    IF n = 0 THEN <<>>
    ELSE LoopCalls(elems, n - 1) \o ResultCalls(n - 1, elems[n])

CompletedEvent(result) ==
    /\ hook' = "completed_event"
    /\ args' = result
    /\ LET t == Truth(result)
       IN  /\ raised' = IF t \in {"True", "False"} THEN "" ELSE t
           /\ calls' = IF t = "True"
                       THEN LoopCalls(AsTuple(result), Len(AsTuple(result)))
                       ELSE <<>>
    /\ UNCHANGED <<config, resources, digestCalls, digestRaised>>
    /\ UNCHANGED jobVars

----------------------------------------------------------------------------
(* WandbObserver.artifact_event.                                           *)

\* a = PyTuple(<<name, filename, metadata, content_type>>)
ArtifactEvent(a) ==
    /\ hook' = "artifact_event"
    /\ args' = a
    /\ LET name == a.items[1].text
           contentType == IF a.items[4] = PyNone THEN "file" ELSE a.items[4].text
       IN  calls' = <<ArtifactCall(0, name, contentType),
                      AddFileCall(0, name, a.items[2]),
                      LogArtifactCall(0, name)>>
    /\ raised' = ""
    /\ UNCHANGED <<config, resources, digestCalls, digestRaised>>
    /\ UNCHANGED jobVars

----------------------------------------------------------------------------
(* WandbObserver.resource_event.                                           *)

\* a test that finds no filename cached
AlwaysDigest(filename, res) == TRUE

\* if filename not in self.resources
NeedsDigest(filename, res) == filename \notin DOMAIN res

\* a store that keeps only the newest entry
StoreOnly(res, filename, md5) == [x \in {filename} |-> md5]

\* self.resources[filename] = md5
StoreDigest(res, filename, md5) == SetItem(res, filename, md5)

\* the digests get_digest can return: a file's content can differ between calls
Digests == {"d1", "d2"}

\* get_digest(filename)
DigestCall(filename) == Call("get_digest", 0, <<PyStr(filename)>>)

ResourceEvent(filename) ==
    /\ hook' = "resource_event"
    /\ args' = PyStr(filename)
    /\ IF NeedsDigest(filename, resources)
       THEN /\ digestCalls[filename] < MaxDigestCalls
            /\ calls' = <<DigestCall(filename)>>
            /\ digestCalls' = [digestCalls EXCEPT ![filename] = @ + 1]
            /\ \/ \E md5 \in Digests :
                    /\ resources' = StoreDigest(resources, filename, md5)
                    /\ raised' = ""
                    /\ UNCHANGED digestRaised
               \/ /\ raised' = "OSError"
                  /\ digestRaised' = [digestRaised EXCEPT ![filename] = @ + 1]
                  /\ UNCHANGED resources
       ELSE /\ calls' = <<>>
            /\ raised' = ""
            /\ UNCHANGED <<resources, digestCalls, digestRaised>>
    /\ UNCHANGED config
    /\ UNCHANGED jobVars

----------------------------------------------------------------------------
(* WandbObserver.log_metrics.                                              *)

Min(a, b) == IF a < b THEN a ELSE b

\* for _step, value in zip(steps, values): the calls of the first n pairs
RECURSIVE ZipCalls(_, _, _)
ZipCalls(name, values, n) ==
    IF n = 0 THEN <<>>
    ELSE ZipCalls(name, values, n - 1) \o
         <<IF IsInstance(values[n], "numpy.ndarray")
           THEN LogCall(n - 1, PyDict(<<Entry(name, Image(values[n]))>>))
           ELSE LogCall(n - 1, PyDict(<<Entry(name, values[n])>>))>>

\* an inner loop that logs only the last pair, unwrapped
LastValueOnly(name, ptr) ==
    LET values == DictGet(ptr, "values").items
        n == Min(Len(DictGet(ptr, "steps").items), Len(values))
    IN  IF n = 0 THEN <<>> ELSE <<LogCall(n - 1, PyDict(<<Entry(name, values[n])>>))>>

\* the inner loop for one metric
MetricCalls(name, ptr) ==
    ZipCalls(name, DictGet(ptr, "values").items,
             Min(Len(DictGet(ptr, "steps").items), Len(DictGet(ptr, "values").items)))

\* for metric_name, metric_ptr in metrics_by_name.items()
RECURSIVE MetricsCalls(_)
MetricsCalls(entries) ==
    IF entries = <<>> THEN <<>>
    ELSE MetricCalls(Head(entries).text, Head(entries).items[1])
         \o MetricsCalls(Tail(entries))

LogMetrics(metricsByName) ==
    /\ hook' = "log_metrics"
    /\ args' = metricsByName
    /\ calls' = MetricsCalls(metricsByName.items)
    /\ raised' = ""
    /\ UNCHANGED <<config, resources, digestCalls, digestRaised>>
    /\ UNCHANGED jobVars

----------------------------------------------------------------------------
(* The job script, job_container_creation.py.  A call on the wandb client  *)
(* that raises ends the script: nothing in it catches an exception.        *)

\* "epochs": 5 in the config literal
Epochs == 5

\* config={"foo": "bar", "lr": 0.1, "epochs": 5}
JobConfig ==
    [k \in {"foo", "lr", "epochs"} |->
        IF k = "foo" THEN PyStr("bar")
        ELSE IF k = "lr" THEN PyFloat(1)
        ELSE PyInt(Epochs)]

EmptyMap == [k \in {} |-> PyNone]

\* what a client call does to the program counter: it returns, or it raises
Returns(next) == \E ok \in BOOLEAN : pc' = IF ok THEN next ELSE "crashed"

\* os.environ["WANDB_DOCKER"] = "my-test-container:dummy"
SetEnviron ==
    /\ pc = "L5"
    /\ environ' = SetItem(environ, "WANDB_DOCKER", PyStr("my-test-container:dummy"))
    /\ trace' = Append(trace, Call("os.environ.__setitem__", 0,
                        <<PyStr("WANDB_DOCKER"), PyStr("my-test-container:dummy")>>))
    /\ pc' = "L7"
    /\ UNCHANGED <<settings, runConfig, loopI>>
    /\ UNCHANGED observerVars

\* settings = wandb.Settings()
NewSettings ==
    /\ pc = "L7"
    /\ trace' = Append(trace, Call("wandb.Settings", 0, <<>>))
    /\ Returns("L8")
    /\ UNCHANGED <<environ, settings, runConfig, loopI>>
    /\ UNCHANGED observerVars

\* settings.update({"job_source": "image"})
UpdateSettings ==
    /\ pc = "L8"
    /\ trace' = Append(trace, Call("Settings.update", 0,
                        <<PyDict(<<Entry("job_source", PyStr("image"))>>)>>))
    /\ Returns("L9")
    /\ settings' = IF pc' = "L9" THEN SetItem(settings, "job_source", PyStr("image"))
                   ELSE settings
    /\ UNCHANGED <<environ, runConfig, loopI>>
    /\ UNCHANGED observerVars

\* run = wandb.init(project="test-job", config={...}, settings=settings)
WandbInit ==
    /\ pc = "L9"
    /\ trace' = Append(trace, Call("wandb.init", 0,
                        <<PyStr("test-job"),
                          PyDict(<<Entry("foo", JobConfig["foo"]),
                                   Entry("lr", JobConfig["lr"]),
                                   Entry("epochs", JobConfig["epochs"])>>)>>))
    /\ Returns("L12")
    /\ runConfig' = IF pc' = "L12" THEN JobConfig ELSE runConfig
    /\ UNCHANGED <<environ, settings, loopI>>
    /\ UNCHANGED observerVars

\* a stop that includes run.config["epochs"] itself
StopInclusive(cfg) == cfg["epochs"].num + 1

\* the stop of range(1, run.config["epochs"])
RangeStop(cfg) == cfg["epochs"].num

\* for i in range(1, run.config["epochs"]): the next value, or the end of the loop
ForLoss ==
    /\ pc = "L12"
    /\ IF loopI + 1 < RangeStop(runConfig)
       THEN loopI' = loopI + 1 /\ pc' = "L13"
       ELSE loopI' = loopI /\ pc' = "L14"
    /\ UNCHANGED <<environ, settings, runConfig, trace>>
    /\ UNCHANGED observerVars

\* wandb.log({"loss": i})
LogLoss ==
    /\ pc = "L13"
    /\ trace' = Append(trace, LogCall(loopI - 1, PyDict(<<Entry("loss", PyInt(loopI))>>)))
    /\ Returns("L12")
    /\ UNCHANGED <<environ, settings, runConfig, loopI>>
    /\ UNCHANGED observerVars

\* run.finish()
Finish ==
    /\ pc = "L14"
    /\ trace' = Append(trace, Call("run.finish", 0, <<>>))
    /\ Returns("done")
    /\ UNCHANGED <<environ, settings, runConfig, loopI>>
    /\ UNCHANGED observerVars

----------------------------------------------------------------------------
(* Inputs.                                                                 *)

\* the keys and values of the config mappings
KeyOrder == <<"a", "resources">>

CfgValues == {PyInt(1), PyInt(2)}

\* the key/value stores over some of the keys
CfgMaps ==
    UNION {[ks -> CfgValues] : ks \in SUBSET {KeyOrder[i] : i \in 1..Len(KeyOrder)}}

\* the dict holding the entries of f, in key order
DictOf(f) ==
    LET Has(k) == k \in DOMAIN f
        ks == SelectSeq(KeyOrder, Has)
    IN  PyDict([i \in 1..Len(ks) |-> Entry(ks[i], f[ks[i]])])

StartConfigs == {DictOf(f) : f \in CfgMaps}

Files == {"a.py", "b.csv"}

ArtifactArgs ==
    {PyTuple(<<PyStr("model"), PyStr(f), PyNone, ct>>) :
        f \in Files, ct \in {PyNone, PyStr("weights")}}

\* an image: an array of more than one element
Img == NdArray(<<PyInt(0), PyInt(1)>>)

\* the elements of a result
Elems ==
    {PyFloat(0), PyFloat(5), PyInt(0), PyInt(1), PyBool(TRUE),
     PyDict(<<>>), PyDict(<<Entry("acc", PyFloat(9))>>),
     PyStr(""), PyStr("out.txt"), Img, PyNone}

\* the results: absent, a single value, a list, a tuple of at most n elements
Results(n) ==
    Elems \cup {PyList(<<>>), PyList(<<PyInt(1), PyFloat(5)>>)}
    \cup {PyTuple(t) : t \in UNION {[1..k -> Elems] : k \in 0..n}}

MetricValues == {PyFloat(9), PyFloat(5), Img}

SeqsUpTo(S, n) == UNION {[1..k -> S] : k \in 0..n}

\* {"steps": [0, 1, ...], "values": [...]}
MetricPtr(nSteps, values) ==
    PyDict(<<Entry("steps", PyList([i \in 1..nSteps |-> PyInt(i - 1)])),
             Entry("values", PyList(values))>>)

\* batches of one metric, with steps and values of any lengths up to n, and
\* batches of two metrics of at most one value each
MetricBatches(n) ==
    {PyDict(<<>>)}
    \cup {PyDict(<<Entry(name, MetricPtr(k, vs))>>) :
            name \in {"loss", "acc"}, k \in 0..n, vs \in SeqsUpTo(MetricValues, n)}
    \cup {PyDict(<<Entry(names[1], MetricPtr(Len(v1), v1)),
                   Entry(names[2], MetricPtr(Len(v2), v2))>>) :
            names \in {<<"loss", "acc">>, <<"acc", "loss">>},
            v1 \in SeqsUpTo(MetricValues, 1), v2 \in SeqsUpTo(MetricValues, 1)}

----------------------------------------------------------------------------
(* Specifications.                                                         *)

\* after WandbObserver(**kwargs), and before the first line of the job script
Init ==
    /\ config \in CfgMaps
    /\ resources = [f \in {} |-> ""]
    /\ digestCalls = [f \in Files |-> 0]
    /\ digestRaised = [f \in Files |-> 0]
    /\ hook = "__init__"
    /\ args = PyNone
    /\ calls = <<>>
    /\ raised = ""
    /\ pc = "L5"
    /\ environ = EmptyMap
    /\ settings = EmptyMap
    /\ runConfig = EmptyMap
    /\ loopI = 0
    /\ trace = <<>>

\* after WandbObserver(), constructed without a config
InitPlain == Init /\ config = EmptyMap

\* a few results and batches, for the runs that mix the callbacks
SomeResults ==
    {PyNone, PyFloat(5), PyStr("out.txt"),
     PyTuple(<<PyInt(1), PyDict(<<Entry("acc", PyFloat(9))>>), Img>>)}

SomeBatches ==
    {PyDict(<<>>),
     PyDict(<<Entry("loss", MetricPtr(2, <<PyFloat(9), PyFloat(5)>>))>>),
     PyDict(<<Entry("loss", MetricPtr(1, <<PyFloat(9)>>)),
              Entry("acc", MetricPtr(1, <<Img>>))>>)}

AllResults == Results(MaxResultLen)

AllBatches == MetricBatches(MaxSeriesLen)

\* the callbacks of one observer, in any order
Next ==
    \/ \E c \in StartConfigs : StartedEvent(c)
    \/ \E f \in Files : ResourceEvent(f)
    \/ \E a \in ArtifactArgs : ArtifactEvent(a)
    \/ \E r \in SomeResults : CompletedEvent(r)
    \/ \E m \in SomeBatches : LogMetrics(m)

Spec == Init /\ [][Next]_vars

\* completed_event on every result
NextComplete == \E r \in AllResults : CompletedEvent(r)

SpecComplete == InitPlain /\ [][NextComplete]_vars

\* log_metrics on every batch
NextMetrics == \E m \in AllBatches : LogMetrics(m)

SpecMetrics == InitPlain /\ [][NextMetrics]_vars

\* the job script, in a process in which an observer is started as well
NextJob ==
    \/ SetEnviron
    \/ NewSettings
    \/ UpdateSettings
    \/ WandbInit
    \/ ForLoss
    \/ LogLoss
    \/ Finish
    \/ \E c \in StartConfigs : StartedEvent(c)

SpecJob == Init /\ [][NextJob]_vars

----------------------------------------------------------------------------
(* Properties.                                                             *)

\* the elements completed_event is given: the items of a tuple, or the one value
Elements(result) == IF result.type = "tuple" THEN result.items ELSE <<result>>

\* the calls issued for the element at index i
CallsAt(i) ==
    LET At(c) == c.idx = i
    IN  SelectSeq(calls, At)

IsNumber(e) == e.type \in {"float", "int", "bool"}

\* a number's value in tenths
Tenths(e) == IF e.type = "float" THEN e.num ELSE 10 * e.num

\* c is wandb.log({key: v}) for some v
LogsOneKey(c, key) ==
    /\ c.op = "wandb.log"
    /\ c.args[1].type = "dict"
    /\ Len(c.args[1].items) = 1
    /\ c.args[1].items[1].text = key

LoggedValue(c) == c.args[1].items[1].items[1]

IsImageLog(c) ==
    /\ c.op = "wandb.log"
    /\ \E j \in 1..Len(c.args[1].items) : c.args[1].items[j].items[1].type = "wandb.Image"

\* the three calls that upload path as the artifact name of type type
Upload(i, name, type, path) ==
    <<Call("wandb.Artifact", i, <<PyStr(name), PyStr(type)>>),
      Call("Artifact.add_file", i, <<PyStr(name), path>>),
      Call("run.log_artifact", i, <<PyStr(name)>>)>>

\* C1: completed_event issues, for every float or int element of the result
\* (0 and 0.0 included, passed alone or at index i of a tuple), exactly one
\* call, wandb.log({"result_<i>": value}), and so no artifact and no warning.
C1_ScalarLoggedOnce ==
    hook = "completed_event" =>
        \A i \in 1..Len(Elements(args)) :
            LET e == Elements(args)[i]
                cs == CallsAt(i - 1)
            IN  e.type \in {"float", "int"} =>
                    /\ Len(cs) = 1
                    /\ LogsOneKey(cs[1], "result_" \o ToString(i - 1))
                    /\ LoggedValue(cs[1]).type = "float"
                    /\ Tenths(LoggedValue(cs[1])) = Tenths(e)

\* C2: completed_event issues, for every element of an unsupported type (a
\* str, None, a list) of a result it dispatches, exactly one call, a warning
\* naming the type, and so no metric-log call and no artifact.
C2_UnsupportedWarned ==
    hook = "completed_event" /\ Truth(args) = "True" =>
        \A i \in 1..Len(Elements(args)) :
            LET e == Elements(args)[i]
                cs == CallsAt(i - 1)
            IN  e.type \in {"str", "NoneType", "list"} =>
                    /\ Len(cs) = 1
                    /\ cs[1].op = "warnings.warn"
                    /\ cs[1].args[1] =
                          PyStr("logging results does not support type '<class '"
                                \o e.type \o "'>' results. Ignoring this result")

\* C3, as claimed: get_digest is invoked at most once for each filename.
C3_DigestAtMostOnce == \A f \in Files : digestCalls[f] <= 1

\* C3, amended: a resource_event for a filename that has a cached digest
\* invokes no get_digest, and a get_digest that returns caches its digest; so
\* at most one invocation per filename returns, and every further invocation
\* follows one that raised.
C3_DigestOnlyWhileUncached ==
    [][\A f \in Files :
          /\ f \in DOMAIN resources =>
                /\ digestCalls'[f] = digestCalls[f]
                /\ hook' = "resource_event" /\ args' = PyStr(f) => calls' = <<>>
          /\ digestCalls'[f] <= digestCalls[f] + 1
          /\ digestCalls'[f] > digestCalls[f] =>
                /\ f \notin DOMAIN resources
                /\ raised' = "" <=> f \in DOMAIN resources'
                /\ digestCalls[f] = digestRaised[f]]_vars

\* a resource_event reused the cached digest of a file whose first digest raised
C3_Witness ==
    /\ hook = "resource_event"
    /\ args = PyStr("a.py")
    /\ calls = <<>>
    /\ "a.py" \in DOMAIN resources
    /\ digestCalls["a.py"] = 2
    /\ digestRaised["a.py"] = 1

\* the keys of a dict
Keys(d) == {d.items[j].text : j \in 1..Len(d.items)}

CallsFor(name) ==
    LET For(c) == LogsOneKey(c, name)
    IN  SelectSeq(calls, For)

\* C5: log_metrics issues only wandb.log calls of one key, and for each metric
\* of the batch one call per (step, value) pair, keyed by the metric's name, in
\* the order of the values (an array value wrapped as an image).
C5_MetricPerPair ==
    hook = "log_metrics" =>
        /\ \A k \in 1..Len(calls) :
              \E name \in Keys(args) : LogsOneKey(calls[k], name)
        /\ \A j \in 1..Len(args.items) :
              LET name == args.items[j].text
                  steps == DictGet(args.items[j].items[1], "steps").items
                  values == DictGet(args.items[j].items[1], "values").items
                  cs == CallsFor(name)
              IN  /\ Len(cs) = IF Len(steps) < Len(values) THEN Len(steps) ELSE Len(values)
                  /\ \A k \in 1..Len(cs) :
                        LoggedValue(cs[k]) =
                            IF values[k].type = "numpy.ndarray"
                            THEN Val("wandb.Image", 0, "", <<values[k]>>)
                            ELSE values[k]

\* the batch {"loss": {"steps": [0, 1], "values": [0.9, 0.5]}} was logged
C5_Witness ==
    /\ hook = "log_metrics"
    /\ args = PyDict(<<Entry("loss", MetricPtr(2, <<PyFloat(9), PyFloat(5)>>))>>)
    /\ Len(calls) = 2
    /\ LoggedValue(calls[1]) = PyFloat(9)
    /\ LoggedValue(calls[2]) = PyFloat(5)

\* C6: completed_event issues, for every dict element of the result, only
\* wandb.log calls whose argument is that dict as it is (no artifact, no
\* warning), and exactly one of them when the result is dispatched.
C6_MappingLoggedUnaltered ==
    hook = "completed_event" =>
        \A i \in 1..Len(Elements(args)) :
            LET e == Elements(args)[i]
                cs == CallsAt(i - 1)
            IN  e.type = "dict" =>
                    /\ \A k \in 1..Len(cs) : cs[k].op = "wandb.log" /\ cs[k].args = <<e>>
                    /\ Truth(args) = "True" => Len(cs) = 1

\* a dict at index 1 of a tuple was logged
C6_Witness ==
    /\ hook = "completed_event"
    /\ args = PyTuple(<<PyFloat(5), PyDict(<<Entry("acc", PyFloat(9))>>)>>)
    /\ Len(calls) = 2
    /\ calls[2] = Call("wandb.log", 1, <<PyDict(<<Entry("acc", PyFloat(9))>>)>>)

\* the indices at which the calls were issued, in order
Indices == [k \in 1..Len(calls) |-> calls[k].idx]

\* C7: completed_event makes no call when the result is absent; it handles a
\* present result that is no sequence as the element of index 0; it dispatches
\* each element of a sequence (tuple or list) once, in increasing index order.
C7_ResultDispatch ==
    hook = "completed_event" =>
        /\ args = PyNone => calls = <<>>
        /\ args # PyNone /\ args.type \notin {"tuple", "list"} =>
              /\ raised = ""
              /\ calls # <<>>
              /\ \A k \in 1..Len(calls) : calls[k].idx = 0
        /\ args.type \in {"tuple", "list"} =>
              /\ {Indices[k] : k \in 1..Len(calls)} = 0..(Len(args.items) - 1)
              /\ \A k \in 1..(Len(calls) - 1) : Indices[k] <= Indices[k + 1]

\* C8: self.resources is empty after construction; an entry is never removed
\* and never changes; only a resource_event that returns changes the mapping.
C8_ResourcesAppendOnly ==
    /\ DOMAIN resources = {}
    /\ [][/\ \A f \in DOMAIN resources :
                f \in DOMAIN resources' /\ resources'[f] = resources[f]
          /\ resources' # resources => hook' = "resource_event" /\ raised' = ""
          /\ raised' # "" => resources' = resources]_vars

\* another callback came after both files had been given a digest
C8_Witness ==
    /\ DOMAIN resources = Files
    /\ hook = "completed_event"
    /\ calls # <<>>

\* s is an initial part of t
IsPrefix(s, t) == Len(s) <= Len(t) /\ \A k \in 1..Len(s) : s[k] = t[k]

\* C9: the job script sets the environment marker, then initialises the run
\* once with epochs = 5, then logs 'loss' four times with 1, 2, 3, 4 in this
\* order, then finishes once; a script that ends has made all of these calls.
C9_JobCallOrder ==
    LET ops == [k \in 1..Len(trace) |-> trace[k].op]
        expected == <<"os.environ.__setitem__", "wandb.Settings", "Settings.update",
                      "wandb.init", "wandb.log", "wandb.log", "wandb.log", "wandb.log",
                      "run.finish">>
    IN  /\ IsPrefix(ops, expected)
        /\ pc = "done" => ops = expected
        /\ \A k \in 1..Len(trace) :
              /\ trace[k].op = "wandb.init" =>
                    DictGet(trace[k].args[2], "epochs") = PyInt(5)
              /\ trace[k].op = "wandb.log" =>
                    /\ LogsOneKey(trace[k], "loss")
                    /\ LoggedValue(trace[k]) = PyInt(k - 4)

\* the script ran to its end
C9_Witness ==
    /\ pc = "done"
    /\ Len(trace) = 9
    /\ trace[8] = Call("wandb.log", 3, <<PyDict(<<Entry("loss", PyInt(4))>>)>>)

=============================================================================
